---- MODULE Spec2Model ----
(***************************************************************************)
(* Model of scripts/generate_assets.py (Prism Digital asset generator).    *)
(*                                                                         *)
(* Two specifications share the variables below.                          *)
(*   Spec       the driver main(): directory setup, the manifest loop,     *)
(*              the per-asset try/except, the hand-off to img.save and     *)
(*              the reports printed to stdout.  Generators are followed    *)
(*              row by row (the outer "for y" loop).                       *)
(*   PixelSpec  the per-pixel arithmetic of the four deterministic         *)
(*              generators, one putpixel per step, and the two alpha       *)
(*              profiles evaluated on a grid of normalized distances.      *)
(***************************************************************************)
EXTENDS Integers, Sequences, FiniteSets

VARIABLES
    \* ---- driver (main) ----
    pc,        \* position in main(): "start" "loop" "gen" "save" "saved" "except" "done" "crashed"
    idx,       \* 1-based position in the manifest of the asset being processed
    dirs,      \* directories that exist under OUTPUT_DIR
    readOnly,  \* environment: the destination root rejects every mkdir and every write
    img,       \* the image being built / returned by the current generator
    sink,      \* every call of img.save so far: destination, buffer, outcome
    out,       \* stdout: the reports printed so far
    trace,     \* the events of the run, in order
    fault,     \* per manifest position, the exception raised inside its try block
    err,       \* the exception being handled ("none" outside an except clause)
    \* ---- pixel loops ----
    gen,       \* the generator whose loop is running ("main" in the driver spec)
    x, y,      \* loop counters: the next pixel to be written
    at,        \* coordinates of the pixel written last (<<>> before the first)
    norm,      \* norm_dist of that pixel, held as the fraction <<a, b>> = norm_dist^2
    pixel      \* the value written last (<<>> before the first)

vars == <<pc, idx, dirs, readOnly, img, sink, out, trace, fault, err, gen, x, y, at, norm, pixel>>
driverVars == <<pc, idx, dirs, readOnly, img, sink, out, trace, fault, err>>
pixelVars == <<gen, x, y, at, norm, pixel>>

(***************************************************************************)
(* The manifest and the shapes of the buffers                              *)
(***************************************************************************)

\* main(): the assets list, in order.
Assets ==
    << [name |-> "purple-gradient.png", path |-> "textures",
        generator |-> "generate_purple_gradient",
        description |-> "Purple gradient texture for scene theming"],
       [name |-> "noise.png", path |-> "textures",
        generator |-> "generate_noise_texture",
        description |-> "Noise texture for particle displacement"],
       [name |-> "matcap-metallic.png", path |-> "textures",
        generator |-> "generate_matcap_texture",
        description |-> "Metallic matcap for reflective surfaces"],
       [name |-> "particle-glow.png", path |-> "sprites",
        generator |-> "generate_particle_sprite",
        description |-> "Soft circular particle sprite with glow"],
       [name |-> "particle-soft.png", path |-> "sprites",
        generator |-> "generate_soft_particle_sprite",
        description |-> "Extra soft particle sprite for background"] >>

NumAssets == Len(Assets)

\* ensure_directories(): the three directories, in the order they are made.
Dirs == << "textures", "sprites", "hdri" >>

\* ImageShape with the glow sprite created without its alpha channel.
ImageShape_SpriteRGB(g) ==
    CASE g = "generate_purple_gradient"      -> [mode |-> "RGB",  width |-> 256, height |-> 256]
      [] g = "generate_noise_texture"        -> [mode |-> "L",    width |-> 512, height |-> 512]
      [] g = "generate_matcap_texture"       -> [mode |-> "RGB",  width |-> 256, height |-> 256]
      [] g = "generate_particle_sprite"      -> [mode |-> "RGB",  width |-> 64,  height |-> 64]
      [] g = "generate_soft_particle_sprite" -> [mode |-> "RGBA", width |-> 64,  height |-> 64]

\* Image.new(mode, (width, height)) / Image.fromarray(noise, mode='L') of each generator.
ImageShape(g) ==
    CASE g = "generate_purple_gradient"      -> [mode |-> "RGB",  width |-> 256, height |-> 256]
      [] g = "generate_noise_texture"        -> [mode |-> "L",    width |-> 512, height |-> 512]
      [] g = "generate_matcap_texture"       -> [mode |-> "RGB",  width |-> 256, height |-> 256]
      [] g = "generate_particle_sprite"      -> [mode |-> "RGBA", width |-> 64,  height |-> 64]
      [] g = "generate_soft_particle_sprite" -> [mode |-> "RGBA", width |-> 64,  height |-> 64]

\* The generators that fill their buffer with a "for y ... for x ... putpixel" loop;
\* generate_noise_texture builds its array in one numpy call instead.
LoopGenerators ==
    { "generate_purple_gradient", "generate_matcap_texture",
      "generate_particle_sprite", "generate_soft_particle_sprite" }

NoImage == [mode |-> "none", width |-> 0, height |-> 0, written |-> 0]

\* A buffer of generator g in which `rows` rows have been written.
NewImage(g, rows) ==
    [mode |-> ImageShape(g).mode, width |-> ImageShape(g).width,
     height |-> ImageShape(g).height, written |-> rows * ImageShape(g).width]

FullyWritten(i) == i.mode # "none" /\ i.written = i.width * i.height

\* f"{asset['path']}/{asset['name']}"
AssetLabel(a) == <<a.path, a.name>>

\* Exceptions (all subclasses of Exception) the try block can see.
GenErrors == { "MemoryError" }
SaveErrors == { "PermissionError", "OSError" }

(***************************************************************************)
(* The driver: main()                                                      *)
(***************************************************************************)

Banner == [kind |-> "banner", asset |-> <<>>, text |-> "Generating Prism Digital assets..."]
Complete == [kind |-> "complete", asset |-> <<>>, text |-> "Asset generation complete!"]

\* The position of the first directory ensure_directories() cannot make, 0 if none:
\* mkdir(parents=True, exist_ok=True) passes for a directory that exists and for one
\* the file system lets it create (those in `creatable`).
FirstMkdirFailure(existing, creatable) ==
    LET bad == { k \in 1..Len(Dirs) : Dirs[k] \notin existing /\ Dirs[k] \notin creatable }
    IN  IF bad = {} THEN 0 ELSE CHOOSE k \in bad : \A j \in bad : k <= j

\* main(), lines 173-175: the banner, then ensure_directories(), which is outside
\* every try block: an OSError from mkdir leaves main() by an uncaught exception.
EnsureDirectories ==
    /\ pc = "start"
    /\ \E creatable \in SUBSET { Dirs[k] : k \in 1..Len(Dirs) } :
          /\ readOnly => creatable = {}
          /\ LET k == FirstMkdirFailure(dirs, creatable)
             IN  IF k = 0
                 THEN /\ dirs' = dirs \cup creatable
                      /\ pc' = "loop"
                      /\ trace' = Append(trace, <<"mkdirs", 0>>)
                 ELSE /\ dirs' = dirs \cup { Dirs[j] : j \in 1..(k - 1) }
                      /\ pc' = "crashed"
                      /\ trace' = Append(trace, <<"uncaught", 0>>)
    /\ out' = Append(out, Banner)
    /\ UNCHANGED <<idx, readOnly, img, sink, fault, err, pixelVars>>

\* line 212: asset['generator']() is called; a loop generator starts on an empty
\* buffer, generate_noise_texture returns its whole array at once.
CallGenerator ==
    /\ pc = "loop"
    /\ idx <= NumAssets
    /\ LET g == Assets[idx].generator
       IN  img' = IF g \in LoopGenerators THEN NewImage(g, 0)
                  ELSE NewImage(g, ImageShape(g).height)
    /\ pc' = "gen"
    /\ trace' = Append(trace, <<"call", idx>>)
    /\ UNCHANGED <<idx, dirs, readOnly, sink, out, fault, err, pixelVars>>

\* One pass of the outer "for y in range(height)" loop: a row of putpixel calls.
PutRow ==
    /\ pc = "gen"
    /\ ~FullyWritten(img)
    /\ img' = [img EXCEPT !.written = @ + img.width]
    /\ UNCHANGED <<pc, idx, dirs, readOnly, sink, out, trace, fault, err, pixelVars>>

\* GeneratorReturn leaving the loops early: the buffer is returned part-written.
GeneratorReturn_Early ==
    /\ pc = "gen"
    /\ img.written > 0
    /\ pc' = "save"
    /\ trace' = Append(trace, <<"return", idx>>)
    /\ UNCHANGED <<idx, dirs, readOnly, img, sink, out, fault, err, pixelVars>>

\* "return img": the loops have run to their end.
GeneratorReturn ==
    /\ pc = "gen"
    /\ FullyWritten(img)
    /\ pc' = "save"
    /\ trace' = Append(trace, <<"return", idx>>)
    /\ UNCHANGED <<idx, dirs, readOnly, img, sink, out, fault, err, pixelVars>>

\* An exception inside the generator (line 212 is inside the try block): the
\* buffer under construction is dropped and control goes to the except clause.
GeneratorRaise ==
    /\ pc = "gen"
    /\ \E e \in GenErrors :
          /\ err' = e
          /\ fault' = [fault EXCEPT ![idx] = e]
    /\ img' = NoImage
    /\ pc' = "except"
    /\ trace' = Append(trace, <<"raise", idx>>)
    /\ UNCHANGED <<idx, dirs, readOnly, sink, out, pixelVars>>

\* lines 213-214: img.save(OUTPUT_DIR / path / name); it returns or raises.
Save ==
    /\ pc = "save"
    /\ \E e \in SaveErrors \cup { "none" } :
          /\ readOnly => e = "PermissionError"
          /\ sink' = Append(sink, [path |-> Assets[idx].path, name |-> Assets[idx].name,
                                   image |-> img, error |-> e])
          /\ IF e = "none"
             THEN /\ pc' = "saved"
                  /\ UNCHANGED <<fault, err>>
             ELSE /\ pc' = "except"
                  /\ err' = e
                  /\ fault' = [fault EXCEPT ![idx] = e]
    /\ trace' = Append(trace, <<"save", idx>>)
    /\ UNCHANGED <<idx, dirs, readOnly, img, out, pixelVars>>

\* lines 215-216: the success report, then the next manifest entry.
ReportSuccess ==
    /\ pc = "saved"
    /\ out' = Append(out, [kind |-> "generated", asset |-> AssetLabel(Assets[idx]),
                           text |-> Assets[idx].description])
    /\ trace' = Append(trace, <<"report", idx>>)
    /\ idx' = idx + 1
    /\ pc' = "loop"
    /\ UNCHANGED <<dirs, readOnly, img, sink, fault, err, pixelVars>>

\* ReportFailure without the except clause: the exception leaves main().
ReportFailure_Uncaught ==
    /\ pc = "except"
    /\ pc' = "crashed"
    /\ trace' = Append(trace, <<"uncaught", idx>>)
    /\ UNCHANGED <<idx, dirs, readOnly, img, sink, out, fault, err, pixelVars>>

\* lines 217-219: "except Exception as e": the failure report, then the next entry.
ReportFailure ==
    /\ pc = "except"
    /\ out' = Append(out, [kind |-> "failed", asset |-> AssetLabel(Assets[idx]),
                           text |-> err])
    /\ trace' = Append(trace, <<"report", idx>>)
    /\ err' = "none"
    /\ idx' = idx + 1
    /\ pc' = "loop"
    /\ UNCHANGED <<dirs, readOnly, img, sink, fault, pixelVars>>

\* line 221: the loop is exhausted; the closing line is printed.
Finish ==
    /\ pc = "loop"
    /\ idx > NumAssets
    /\ out' = Append(out, Complete)
    /\ pc' = "done"
    /\ trace' = Append(trace, <<"end", 0>>)
    /\ UNCHANGED <<idx, dirs, readOnly, img, sink, fault, err, pixelVars>>

Init ==
    /\ pc = "start"
    /\ idx = 1
    /\ dirs \in SUBSET { Dirs[k] : k \in 1..Len(Dirs) }
    /\ readOnly \in BOOLEAN
    /\ img = NoImage
    /\ sink = <<>>
    /\ out = <<>>
    /\ trace = <<>>
    /\ fault = [i \in 1..NumAssets |-> "none"]
    /\ err = "none"
    /\ gen = "main"
    /\ x = 0
    /\ y = 0
    /\ at = <<>>
    /\ norm = <<>>
    /\ pixel = <<>>

Next ==
    \/ EnsureDirectories
    \/ CallGenerator
    \/ PutRow
    \/ GeneratorReturn
    \/ GeneratorRaise
    \/ Save
    \/ ReportSuccess
    \/ ReportFailure
    \/ Finish

Spec == Init /\ [][Next]_vars

(***************************************************************************)
(* Arithmetic of the generators                                            *)
(*                                                                         *)
(* norm_dist is distance / max_distance with distance the square root of   *)
(* an integer, so it is held exactly as the fraction <<a, b>> = norm_dist^2.*)
(* A value computed from it by the generators' formulas is a linear form   *)
(* <<p, q, r>> = (p + q * norm_dist) / r with r > 0; int() of such a form  *)
(* is computed exactly by integer square roots.  The results agree with    *)
(* the binary64 results on every pixel and every grid point of this model  *)
(* but one, the matcap corner pixel, which MatcapRed states explicitly.    *)
(***************************************************************************)

Abs(i) == IF i < 0 THEN -i ELSE i

RECURSIVE GCD(_, _)
GCD(a, b) == IF b = 0 THEN a ELSE GCD(b, a % b)

\* The largest k in lo..hi with k * k <= v  (lo * lo <= v).
RECURSIVE ISqrtIn(_, _, _)
ISqrtIn(lo, hi, v) ==
    IF lo = hi THEN lo
    ELSE LET mid == (lo + hi + 1) \div 2
         IN  IF mid * mid <= v THEN ISqrtIn(mid, hi, v) ELSE ISqrtIn(lo, mid - 1, v)

\* floor(sqrt(v)) for v >= 0.
ISqrt(v) == ISqrtIn(0, IF v < 46340 THEN v ELSE 46340, v)

\* The linear form (p + q n) / r in lowest terms.
Lin(p, q, r) ==
    LET g == GCD(GCD(Abs(p), Abs(q)), r)
    IN  <<p \div g, q \div g, r \div g>>

N == <<0, 1, 1>>                                     \* norm_dist itself
Num(c) == <<c, 0, 1>>                                \* an integer literal
LSub(l, c) == Lin(l[1] * c[2] - c[1] * l[3], l[2] * c[2], l[3] * c[2])    \* l - c
LMul(l, c) == Lin(l[1] * c[1], l[2] * c[1], l[3] * c[2])                  \* l * c
LDiv(l, c) == Lin(l[1] * c[2], l[2] * c[2], l[3] * c[1])                  \* l / c
LNeg(l) == <<-l[1], -l[2], l[3]>>
OneMinus(l) == Lin(l[3] - l[1], -l[2], l[3])                              \* 1 - l

\* floor(q * sqrt(a / b)) for n = <<a, b>>.  When a/b is the square of a fraction
\* ra/rb this is floor(q * ra / rb); otherwise, with q*q*a/b = v/d in lower terms,
\* it is floor(sqrt(v/d)) for q >= 0 and -ceil(sqrt(v/d)) for q < 0.
FloorRoot(q, n) ==
    LET g1 == GCD(n[1], n[2])
        a == n[1] \div g1
        b == n[2] \div g1
        ra == ISqrt(a)
        rb == ISqrt(b)
        g2 == GCD(q * q, b)
        v == ((q * q) \div g2) * a
        d == b \div g2
    IN  IF ra * ra = a /\ rb * rb = b THEN (q * ra) \div rb
        ELSE IF q >= 0 THEN ISqrt(v \div d)
        ELSE -(ISqrt(((v + d - 1) \div d) - 1) + 1)

\* floor of the linear form l at norm_dist^2 = n.
Floor(l, n) == (l[1] + FloorRoot(l[2], n)) \div l[3]

\* int(): truncation toward zero.
PyInt(l, n) == IF Floor(l, n) >= 0 THEN Floor(l, n) ELSE -Floor(LNeg(l), n)

\* int(a / b) for integers a and b > 0.
IntDiv(a, b) == IF a >= 0 THEN a \div b ELSE -((-a) \div b)

\* norm_dist < c for a fraction c = <<num, den>> >= 0.
Less(n, c) == n[1] * c[2] * c[2] < c[1] * c[1] * n[2]

One == <<1, 1>>

\* min(distance / max_distance, 1.0) with distance^2 = d2, max_distance^2 = maxsq.
NormDist(d2, maxsq) == IF d2 >= maxsq THEN One ELSE <<d2, maxsq>>

(***************************************************************************)
(* hex_to_rgb and generate_purple_gradient                                 *)
(***************************************************************************)

HexDigits == << "0", "1", "2", "3", "4", "5", "6", "7", "8", "9",
                "a", "b", "c", "d", "e", "f" >>

\* int(c, 16) of one character.
HexVal(c) == (CHOOSE k \in 1..Len(HexDigits) : HexDigits[k] = c) - 1

\* str.lstrip('#')
RECURSIVE LStripHash(_)
LStripHash(s) == IF s # <<>> /\ Head(s) = "#" THEN LStripHash(Tail(s)) ELSE s

\* hex_to_rgb(hex_color), the string given as its characters.
hex_to_rgb(hex_color) ==
    LET h == LStripHash(hex_color)
    IN  [i \in 1..3 |-> 16 * HexVal(h[2 * i - 1]) + HexVal(h[2 * i])]

\* generate_purple_gradient: the four colour stops.
colors ==
    << hex_to_rgb(<<"#", "1", "a", "0", "0", "3", "3">>),
       hex_to_rgb(<<"#", "4", "a", "0", "0", "8", "0">>),
       hex_to_rgb(<<"#", "8", "b", "0", "0", "f", "f">>),
       hex_to_rgb(<<"#", "d", "5", "8", "0", "f", "f">>) >>

\* The colour of row yy (lines 49-58).  segment = (yy / height) * (len(colors) - 1)
\* is the fraction yy * (len - 1) / height; idx = int(segment); t = segment - idx.
GradientColor(yy, height) ==
    LET last == Len(colors) - 1
        segNum == yy * last
        i == IntDiv(segNum, height)
        tNum == segNum - i * height
    IN  IF i >= last THEN colors[Len(colors)]
        ELSE [c \in 1..3 |->
                 IntDiv(colors[i + 1][c] * height + (colors[i + 2][c] - colors[i + 1][c]) * tNum,
                        height)]

(***************************************************************************)
(* generate_matcap_texture                                                 *)
(***************************************************************************)

\* dx*dx + dy*dy for the pixel (px, py) and the centre (cx, cy).
DistSq(px, py, cx, cy) == (px - cx) * (px - cx) + (py - cy) * (py - cy)

\* int(255 * (1 - norm_dist * 0.8)).  At norm_dist = 1.0 binary64 gives
\* 1 - 0.8 = 0.19999999999999996 and 255 * that = 50.99999999999999.
MatcapRed(n) ==
    IF n = One THEN 50
    ELSE PyInt(LMul(OneMinus(LMul(N, <<8, 10>>)), <<255, 1>>), n)

\* MatcapBlue with the sign of the attenuation flipped: 255 * (1 + norm_dist * 0.5).
MatcapBlue_Brighten(n) == PyInt(LMul(OneMinus(LNeg(LMul(N, <<5, 10>>))), <<255, 1>>), n)

\* int(255 * (1 - norm_dist * 0.5))
MatcapBlue(n) == PyInt(LMul(OneMinus(LMul(N, <<5, 10>>)), <<255, 1>>), n)

\* (r, g, b) of lines 99-101; g is computed by the same expression as r.
MatcapColor(n) == <<MatcapRed(n), MatcapRed(n), MatcapBlue(n)>>

(***************************************************************************)
(* generate_particle_sprite and generate_soft_particle_sprite              *)
(***************************************************************************)

\* GlowSegment2 with a mistyped depth: 255 * (1 - (norm_dist - 0.2) / 0.3 * 0.3).
GlowSegment2_Typo(n) ==
    PyInt(LMul(OneMinus(LMul(LDiv(LSub(N, <<2, 10>>), <<3, 10>>), <<3, 10>>)), <<255, 1>>), n)

\* line 129: int(255 * (1 - (norm_dist - 0.2) / 0.3 * 0.2))
GlowSegment2(n) ==
    PyInt(LMul(OneMinus(LMul(LDiv(LSub(N, <<2, 10>>), <<3, 10>>), <<2, 10>>)), <<255, 1>>), n)

\* GlowSegment3 with the sign of the slope flipped, so that it rises:
\* 255 * (1 + (norm_dist - 0.5) / 0.5) * 0.8.
GlowSegment3_Rising(n) ==
    PyInt(LMul(LMul(OneMinus(LNeg(LDiv(LSub(N, <<5, 10>>), <<5, 10>>))), <<255, 1>>), <<8, 10>>), n)

\* line 131: int(255 * (1 - (norm_dist - 0.5) / 0.5) * 0.8)
GlowSegment3(n) ==
    PyInt(LMul(LMul(OneMinus(LDiv(LSub(N, <<5, 10>>), <<5, 10>>)), <<255, 1>>), <<8, 10>>), n)

\* lines 126-133
GlowAlpha(n) ==
    IF Less(n, <<2, 10>>) THEN 255
    ELSE IF Less(n, <<5, 10>>) THEN GlowSegment2(n)
    ELSE IF Less(n, <<10, 10>>) THEN GlowSegment3(n)
    ELSE 0

\* line 159: int(255 * 0.6)
SoftSegment1 == PyInt(LMul(Num(255), <<6, 10>>), One)

\* line 161: int(255 * 0.6 * (1 - (norm_dist - 0.3) / 0.4))
SoftSegment2(n) ==
    LET c == LMul(Num(255), <<6, 10>>)
        f == OneMinus(LDiv(LSub(N, <<3, 10>>), <<4, 10>>))
    IN  PyInt(LMul(f, <<c[1], c[3]>>), n)

\* line 163: int(255 * 0.6 * (1 - (norm_dist - 0.7) / 0.3) * 0.3)
SoftSegment3(n) ==
    LET c == LMul(Num(255), <<6, 10>>)
        f == OneMinus(LDiv(LSub(N, <<7, 10>>), <<3, 10>>))
    IN  PyInt(LMul(LMul(f, <<c[1], c[3]>>), <<3, 10>>), n)

\* lines 158-165
SoftAlpha(n) ==
    IF Less(n, <<3, 10>>) THEN SoftSegment1
    ELSE IF Less(n, <<7, 10>>) THEN SoftSegment2(n)
    ELSE IF Less(n, <<10, 10>>) THEN SoftSegment3(n)
    ELSE 0

(***************************************************************************)
(* The pixel loops: one putpixel per step, in the order of the source      *)
(* ("for y in range(height): for x in range(width)").                      *)
(***************************************************************************)

\* The loop counters after the pixel (x, y) of a width-w image.
NextX(w) == IF x + 1 < w THEN x + 1 ELSE 0
NextY(w) == IF x + 1 < w THEN y ELSE y + 1

\* generate_purple_gradient, lines 47-61: the row colour, put at (x, y).
GradientPutPixel ==
    /\ gen = "generate_purple_gradient"
    /\ y < ImageShape(gen).height
    /\ pixel' = GradientColor(y, ImageShape(gen).height)
    /\ at' = <<x, y>>
    /\ norm' = <<>>
    /\ x' = NextX(ImageShape(gen).width)
    /\ y' = NextY(ImageShape(gen).width)
    /\ UNCHANGED <<gen, driverVars>>

\* generate_matcap_texture, lines 84-103.
MatcapPutPixel ==
    /\ gen = "generate_matcap_texture"
    /\ y < ImageShape(gen).height
    /\ LET center_x == ImageShape(gen).width \div 2
           center_y == ImageShape(gen).height \div 2
           n == NormDist(DistSq(x, y, center_x, center_y),
                         center_x * center_x + center_y * center_y)
       IN  /\ norm' = n
           /\ pixel' = MatcapColor(n)
    /\ at' = <<x, y>>
    /\ x' = NextX(ImageShape(gen).width)
    /\ y' = NextY(ImageShape(gen).width)
    /\ UNCHANGED <<gen, driverVars>>

\* norm_dist of a sprite pixel, lines 117-123: max_distance = center = size // 2.
SpriteNorm(px, py, size) ==
    LET center == size \div 2
    IN  NormDist(DistSq(px, py, center, center), center * center)

\* generate_particle_sprite, lines 112-135.
GlowPutPixel ==
    /\ gen = "generate_particle_sprite"
    /\ y < ImageShape(gen).height
    /\ LET n == SpriteNorm(x, y, ImageShape(gen).width)
       IN  /\ norm' = n
           /\ pixel' = <<255, 255, 255, GlowAlpha(n)>>
    /\ at' = <<x, y>>
    /\ x' = NextX(ImageShape(gen).width)
    /\ y' = NextY(ImageShape(gen).width)
    /\ UNCHANGED <<gen, driverVars>>

\* generate_soft_particle_sprite, lines 144-167.
SoftPutPixel ==
    /\ gen = "generate_soft_particle_sprite"
    /\ y < ImageShape(gen).height
    /\ LET n == SpriteNorm(x, y, ImageShape(gen).width)
       IN  /\ norm' = n
           /\ pixel' = <<255, 255, 255, SoftAlpha(n)>>
    /\ at' = <<x, y>>
    /\ x' = NextX(ImageShape(gen).width)
    /\ y' = NextY(ImageShape(gen).width)
    /\ UNCHANGED <<gen, driverVars>>

\* The grid on which the alpha profiles are evaluated: norm_dist = k / GridDen,
\* k = 0 .. GridDen, with GridSteps points per tenth, so that it holds every
\* breakpoint of both profiles.
GridSteps == 10
GridDen == 10 * GridSteps

\* The glow profile (lines 126-133) at norm_dist = x / GridDen.
GlowProfileEval ==
    /\ gen = "glow_profile"
    /\ x <= GridDen
    /\ norm' = <<x * x, GridDen * GridDen>>
    /\ pixel' = <<255, 255, 255, GlowAlpha(norm')>>
    /\ at' = <<x>>
    /\ x' = x + 1
    /\ UNCHANGED <<y, gen, driverVars>>

\* The soft profile (lines 158-165) at norm_dist = x / GridDen.
SoftProfileEval ==
    /\ gen = "soft_profile"
    /\ x <= GridDen
    /\ norm' = <<x * x, GridDen * GridDen>>
    /\ pixel' = <<255, 255, 255, SoftAlpha(norm')>>
    /\ at' = <<x>>
    /\ x' = x + 1
    /\ UNCHANGED <<y, gen, driverVars>>

PixelGens ==
    LoopGenerators \cup { "glow_profile", "soft_profile" }

PixelInit ==
    /\ gen \in PixelGens
    /\ x = 0
    /\ y = 0
    /\ at = <<>>
    /\ norm = <<>>
    /\ pixel = <<>>
    /\ pc = "pixels"
    /\ idx = 1
    /\ dirs = {}
    /\ readOnly = FALSE
    /\ img = NoImage
    /\ sink = <<>>
    /\ out = <<>>
    /\ trace = <<>>
    /\ fault = [i \in 1..NumAssets |-> "none"]
    /\ err = "none"

PixelNext ==
    \/ GradientPutPixel
    \/ MatcapPutPixel
    \/ GlowPutPixel
    \/ SoftPutPixel
    \/ GlowProfileEval
    \/ SoftProfileEval

PixelSpec == PixelInit /\ [][PixelNext]_vars

(***************************************************************************)
(* Properties of the driver (specification Spec)                           *)
(***************************************************************************)

\* The generator of manifest entry j has been called.
Called(j) == \E k \in 1..Len(trace) : trace[k] = <<"call", j>>

\* img.save has been tried for manifest entry j.
SaveTried(j) ==
    \E k \in 1..Len(sink) : sink[k].path = Assets[j].path /\ sink[k].name = Assets[j].name

\* The reports printed for manifest entry j, in order.
ReportsOf(j) == SelectSeq(out, LAMBDA r : r.asset = AssetLabel(Assets[j]))

\* The reports of one kind, in order.
ReportsOfKind(kind) == SelectSeq(out, LAMBDA r : r.kind = kind)

\* Every manifest entry has been attempted: its generator was called and, unless
\* the generator itself raised, its save was tried.
AllAttempted ==
    \A j \in 1..NumAssets : Called(j) /\ (fault[j] \notin GenErrors => SaveTried(j))

\* C1: a failure while generating or saving asset i is caught at the per-asset
\* boundary (the run does not leave main() by it, and goes on), it is reported
\* once as failed with the asset's subfolder/name and the error detail, and at the
\* end every later manifest entry has still been attempted, whichever entries fail.
C1_FailureIsolated ==
    \A i \in 1..NumAssets :
        fault[i] # "none" =>
            /\ pc # "crashed"
            /\ pc # "done" => ENABLED Next
            /\ idx > i =>
                  ReportsOf(i) = << [kind |-> "failed", asset |-> <<Assets[i].path, Assets[i].name>>,
                                     text |-> fault[i]] >>
            /\ pc = "done" =>
                  \A j \in (i + 1)..NumAssets :
                      Called(j) /\ (fault[j] \notin GenErrors => SaveTried(j))

\* C1 witness: a finished run in which the save of entry 2 and the generator of
\* entry 4 failed and entries 3 and 5 were written all the same.
C1_Witness ==
    /\ pc = "done"
    /\ fault[2] \in SaveErrors
    /\ fault[4] \in GenErrors
    /\ fault[3] = "none" /\ fault[5] = "none"
    /\ Len(sink) = 4
    /\ Len(ReportsOfKind("failed")) = 2

\* C2 (as stated): with a read-only destination root the run attempts all five
\* entries, reports a failure for each of the five and terminates normally.
C2_ReadOnlyRunReportsAllFive ==
    readOnly =>
        /\ pc # "crashed"
        /\ pc = "done" =>
              /\ AllAttempted
              /\ Len(ReportsOfKind("failed")) = NumAssets

\* C3 (as stated): the run never aborts early; it ends only after every manifest
\* entry has been attempted and its last report is an aggregate summary giving
\* how many assets succeeded and how many failed.
C3_NeverAbortsAndSummarises ==
    /\ pc # "crashed"
    /\ pc = "done" =>
          /\ AllAttempted
          /\ out[Len(out)] = [kind |-> "summary", asset |-> <<>>,
                              text |-> << Len(ReportsOfKind("generated")),
                                          Len(ReportsOfKind("failed")) >>]

\* The destination and shape of each save, in order.
SinkShapes ==
    [k \in 1..Len(sink) |->
        <<sink[k].path, sink[k].name, sink[k].image.mode,
          sink[k].image.width, sink[k].image.height>>]

\* C4: when every directory creation and every write succeeds (and no generator
\* raises), the finished run has handed the sink exactly five fully written
\* buffers, in manifest order, each to its fixed destination with its fixed shape,
\* and has printed five success reports, in manifest order, and no failure report.
C4_WritableRunWritesFive ==
    (pc = "done" /\ \A i \in 1..NumAssets : fault[i] = "none") =>
        /\ SinkShapes = << <<"textures", "purple-gradient.png", "RGB", 256, 256>>,
                           <<"textures", "noise.png", "L", 512, 512>>,
                           <<"textures", "matcap-metallic.png", "RGB", 256, 256>>,
                           <<"sprites", "particle-glow.png", "RGBA", 64, 64>>,
                           <<"sprites", "particle-soft.png", "RGBA", 64, 64>> >>
        /\ \A k \in 1..Len(sink) : sink[k].error = "none" /\ FullyWritten(sink[k].image)
        /\ [k \in 1..Len(ReportsOfKind("generated")) |-> ReportsOfKind("generated")[k].asset]
              = << <<"textures", "purple-gradient.png">>, <<"textures", "noise.png">>,
                   <<"textures", "matcap-metallic.png">>, <<"sprites", "particle-glow.png">>,
                   <<"sprites", "particle-soft.png">> >>
        /\ ReportsOfKind("failed") = <<>>

\* C4 witness: a finished run without any failure, from an empty destination root.
C4_Witness ==
    /\ pc = "done"
    /\ \A i \in 1..NumAssets : fault[i] = "none"
    /\ ~readOnly
    /\ Len(sink) = NumAssets
    /\ Len(ReportsOfKind("generated")) = NumAssets

\* The events of manifest entry i, in order.
EventsOf(i) ==
    LET evs == SelectSeq(trace, LAMBDA e : e[2] = i)
    IN  [k \in 1..Len(evs) |-> evs[k][1]]

IsPrefix(s, t) == Len(s) <= Len(t) /\ \A k \in 1..Len(s) : s[k] = t[k]

\* The manifest position of the asset saved by the k-th call of img.save.
SavedAsset(k) ==
    CHOOSE j \in 1..NumAssets :
        Assets[j].path = sink[k].path /\ Assets[j].name = sink[k].name

\* C10, the states: every buffer handed to the sink is the fully written buffer of
\* its asset's generator, and the saves are in manifest order; the events of each
\* asset are a prefix of call, return, save, report or of call, raise, report; the
\* assets appear in manifest order; an asset that has been left has exactly one
\* report, a success exactly when its save succeeded, and no other asset has any.
C10_States ==
    /\ \A k \in 1..Len(sink) :
          /\ \E j \in 1..NumAssets :
                Assets[j].path = sink[k].path /\ Assets[j].name = sink[k].name
          /\ FullyWritten(sink[k].image)
          /\ sink[k].image.mode = ImageShape(Assets[SavedAsset(k)].generator).mode
          /\ sink[k].image.width = ImageShape(Assets[SavedAsset(k)].generator).width
          /\ sink[k].image.height = ImageShape(Assets[SavedAsset(k)].generator).height
          /\ k > 1 => SavedAsset(k - 1) < SavedAsset(k)
    /\ \A i \in 1..NumAssets :
          \/ IsPrefix(EventsOf(i), <<"call", "return", "save", "report">>)
          \/ IsPrefix(EventsOf(i), <<"call", "raise", "report">>)
    /\ \A k \in 1..(Len(trace) - 1) :
          (trace[k][2] # 0 /\ trace[k + 1][2] # 0) => trace[k][2] <= trace[k + 1][2]
    /\ \A i \in 1..NumAssets :
          /\ i < idx => Len(ReportsOf(i)) = 1
          /\ i >= idx => ReportsOf(i) = <<>>
          /\ \A k \in 1..Len(ReportsOf(i)) :
                /\ ReportsOf(i)[k].kind \in { "generated", "failed" }
                /\ ReportsOf(i)[k].kind = "generated" <=>
                      \E s \in 1..Len(sink) :
                          sink[s].name = Assets[i].name /\ sink[s].error = "none"

\* C10, the steps: a buffer is written only inside its generator, before it is
\* handed to the sink; after the hand-off img changes only by the next generator
\* call, which makes a new buffer; a save hands over the buffer as returned.
C10_Steps ==
    /\ img' # img =>
          \/ pc = "gen" /\ ~SaveTried(idx)
          \/ pc = "loop" /\ pc' = "gen"
    /\ Len(sink') > Len(sink) =>
          /\ pc = "save"
          /\ sink' = Append(sink, sink'[Len(sink')])
          /\ sink'[Len(sink')].image = img
          /\ FullyWritten(img)

\* C10: the sink is invoked only after the asset's generator has returned a fully
\* written buffer, the buffer is not written after the hand-off, each asset goes
\* through generator call, save, then exactly one report, in manifest order.
C10_BufferBuiltBeforeSave == []C10_States /\ [][C10_Steps]_vars

\* C10 witness: a finished run in which four buffers were handed to the sink, one
\* of them refused, and one generator raised.
C10_Witness ==
    /\ pc = "done"
    /\ Len(sink) = 4
    /\ fault[3] \in GenErrors
    /\ fault[5] \in SaveErrors
    /\ Len(ReportsOfKind("generated")) = 3

(***************************************************************************)
(* Properties of the generators (specification PixelSpec)                  *)
(***************************************************************************)

\* norm_dist = c for a fraction c = <<num, den>> >= 0.
Equals(n, c) == n[1] * c[2] * c[2] = c[1] * c[1] * n[2]

\* norm_dist m <= norm_dist n.
AtMost(m, n) == m[1] * n[2] <= n[1] * m[2]

\* The number of the piece of a profile with the given breakpoints that holds n.
SegmentOf(n, breaks) == 1 + Cardinality({ k \in 1..Len(breaks) : ~Less(n, breaks[k]) })

GlowBreaks == << <<2, 10>>, <<5, 10>>, <<10, 10>> >>
SoftBreaks == << <<3, 10>>, <<7, 10>>, <<10, 10>> >>

\* C5 (as stated): in the gradient every pixel of row 0 is the first colour stop
\* and every pixel of the last row is the last colour stop.
C5_GradientEndRowsAreStops ==
    (gen = "generate_purple_gradient" /\ at # <<>>) =>
        /\ at[2] = 0 => pixel = colors[1]
        /\ at[2] = ImageShape(gen).height - 1 => pixel = colors[Len(colors)]

\* C6 (as stated): the soft profile is continuous at 0.3 and at 0.7: the value at
\* the breakpoint, which the piece starting there gives, is the value the piece
\* ending there gives at the breakpoint.
C6_SoftProfileContinuous ==
    (gen = "soft_profile" /\ at # <<>>) =>
        /\ Equals(norm, <<3, 10>>) => pixel[4] = SoftSegment1
        /\ Equals(norm, <<7, 10>>) => pixel[4] = SoftSegment2(norm)

\* C7: the glow profile is continuous at 0.2 and at 0.5: it is 255 below 0.2 and
\* at 0.2, and at 0.5 both the piece starting there and the middle piece, which
\* runs from 255 down to 204, give 204.  The sprite pixels at norm_dist = 0.5 carry
\* that value.
C7_GlowProfileContinuous ==
    (gen \in { "glow_profile", "generate_particle_sprite" } /\ at # <<>>) =>
        /\ Less(norm, <<2, 10>>) => pixel[4] = 255
        /\ Equals(norm, <<2, 10>>) => pixel[4] = 255 /\ GlowSegment2(norm) = 255
        /\ SegmentOf(norm, GlowBreaks) = 2 => pixel[4] \in 204..255
        /\ Equals(norm, <<5, 10>>) => pixel[4] = 204 /\ GlowSegment2(norm) = 204

\* C7 witness: the profile evaluated at the breakpoint 0.5.
C7_Witness ==
    /\ gen = "glow_profile"
    /\ at # <<>>
    /\ Equals(norm, <<5, 10>>)
    /\ pixel[4] = 204

\* The squared distances from the centre that occur in a size x size sprite.
SpriteDistSqs(size) ==
    { DistSq(px, py, size \div 2, size \div 2) : px \in 0..(size - 1), py \in 0..(size - 1) }

\* The alpha of every sprite pixel, by squared distance from the centre.
GlowAlphas ==
    LET size == ImageShape("generate_particle_sprite").width
    IN  [d \in SpriteDistSqs(size) |-> GlowAlpha(NormDist(d, (size \div 2) * (size \div 2)))]
SoftAlphas ==
    LET size == ImageShape("generate_soft_particle_sprite").width
    IN  [d \in SpriteDistSqs(size) |-> SoftAlpha(NormDist(d, (size \div 2) * (size \div 2)))]

\* The pixel written last has an alpha no smaller than any pixel of the same piece
\* that is at least as far from the centre.
NonIncreasingFromHere(alphas, breaks, size) ==
    \A d \in DOMAIN alphas :
        LET m == NormDist(d, (size \div 2) * (size \div 2))
        IN  (SegmentOf(m, breaks) = SegmentOf(norm, breaks) /\ AtMost(norm, m))
                => alphas[d] <= pixel[4]

\* C8: in both particle sprites every pixel with norm_dist >= 1.0 has alpha 0, and
\* within each piece of the profile alpha is non-increasing in norm_dist: of two
\* pixels of the same piece the one with the larger norm_dist has no larger alpha.
C8_SpriteAlphaFallsOff ==
    /\ (gen = "generate_particle_sprite" /\ at # <<>>) =>
          /\ ~Less(norm, <<10, 10>>) => pixel[4] = 0
          /\ NonIncreasingFromHere(GlowAlphas, GlowBreaks, ImageShape(gen).width)
    /\ (gen = "generate_soft_particle_sprite" /\ at # <<>>) =>
          /\ ~Less(norm, <<10, 10>>) => pixel[4] = 0
          /\ NonIncreasingFromHere(SoftAlphas, SoftBreaks, ImageShape(gen).width)

\* C8 witness: a soft-sprite pixel of the second piece whose alpha has fallen below
\* the core value, with a transparent corner pixel behind it in the loop order.
C8_Witness ==
    /\ gen = "generate_soft_particle_sprite"
    /\ at # <<>>
    /\ SegmentOf(norm, SoftBreaks) = 2
    /\ pixel[4] < SoftSegment1
    /\ SoftAlphas[DistSq(0, 0, 32, 32)] = 0

\* The number of channels of a mode.
Channels(mode) == CASE mode = "RGB" -> 3 [] mode = "RGBA" -> 4 [] mode = "L" -> 1

\* C9: every channel of every pixel the gradient, matcap, glow and soft generators
\* write is an integer in 0..255; for every matcap coordinate the distance from
\* the centre is at most max_distance, so norm_dist is in [0, 1] without the clamp.
C9_ChannelsInRange ==
    (gen \in LoopGenerators /\ at # <<>>) =>
        /\ Len(pixel) = Channels(ImageShape(gen).mode)
        /\ \A c \in 1..Len(pixel) : pixel[c] \in 0..255
        /\ gen = "generate_matcap_texture" =>
              /\ DistSq(at[1], at[2], 128, 128) <= 128 * 128 + 128 * 128
              /\ norm[1] >= 0 /\ norm[2] > 0 /\ norm[1] <= norm[2]
              /\ norm[1] * (128 * 128 + 128 * 128) = DistSq(at[1], at[2], 128, 128) * norm[2]

\* C9 witness: the matcap corner pixel, the farthest from the centre.
C9_Witness ==
    /\ gen = "generate_matcap_texture"
    /\ at = <<0, 0>>
    /\ norm = One
    /\ pixel = <<50, 50, 127>>

====
